---- MODULE Spec2Model ----
(***************************************************************************)
(* A model of the RuleSet reconciler of                                    *)
(* pkg/controllers/ruleset/ruleset_controller.go: one Reconcile pass as a  *)
(* sequence of steps over the object store (the RuleSet, its pods), the    *)
(* resource-version expectations and the pod event queues, with the        *)
(* concurrent stage tasks of process interleaved under their mutex.        *)
(***************************************************************************)
EXTENDS Integers, Sequences, FiniteSets, TLC

\* ------------------------------------------------------------- bounds
\* Reconcile passes explored in one behaviour.
MaxPasses == 2
\* Events from outside the pass in one behaviour: changes made to the store
\* by other actors (label changes, deletions) and store calls that answer
\* with an error.
MaxEvents == 2

\* The pods of the RuleSet's namespace.
Pods == {"X", "Y", "Z"}
\* The pods the selector matches when the RuleSet is created.
Selected0 == {"X", "Y"}
\* The order of strings that sort.Strings and sets.String.List follow.
StrOrder == <<"X", "Y", "Z", "r1", "r2", "r3">>

\* A nil *time.Duration.
None == -1
\* The Interval values a stage may report (seconds).
Intervals == {None, 2, 5}

\* retry.DefaultRetry.Steps of k8s.io/client-go/util/retry.
RetrySteps == 5
\* result.RequeueAfter = 5 * time.Second
BlockRequeueAfter == 5

\* r.GetStages() inside a whole Reconcile pass (the policy is set when the
\* process starts).
DriverStages == <<"s1", "s2">>
\* The rule a stage evaluates.
RuleOf(stage) ==
    IF stage = "s1" THEN "r1" ELSE IF stage = "s2" THEN "r2" ELSE "r3"

\* ------------------------------------------------------------ helpers
Rank(s) == CHOOSE k \in 1..Len(StrOrder) : StrOrder[k] = s

\* sets.String.List / sort.Strings: the members of S in ascending order.
RECURSIVE List(_)
List(S) ==
    IF S = {} THEN <<>>
    ELSE LET m == CHOOSE x \in S : \A y \in S : Rank(x) <= Rank(y)
         IN  <<m>> \o List(S \ {m})

Range(seq) == {seq[k] : k \in 1..Len(seq)}

\* A zero-valued RuleSetStatus.
EmptyStatus ==
    [Targets |-> <<>>, ObservedGeneration |-> 0, Details |-> <<>>,
     RuleStates |-> <<>>, UpdateTime |-> 0]

\* reconcile.Result{} with a nil error.
EmptyResult == [Requeue |-> FALSE, RequeueAfter |-> 0]

VARIABLES
    stages,    \* r.GetStages()
    prev,      \* the inputs of the last pass that got through (history)
    rs,        \* the RuleSet in the store
    rsCache,   \* the RuleSet as the client's cache shows it (r.Get reads it)
    pods,      \* the pods in the store
    rsExpect,  \* RulesetVersionExpectation: the pending base version, or None
    podStale,  \* pods whose PodVersionExpectation is not satisfied
    podEventQueues, \* the registered sinks
    pc,        \* the place of the Reconcile pass
    loc,       \* the pass's local variables
    proc,      \* process: the stage tasks, the mutex and the accumulators
    eff,       \* what the pass has done so far (history)
    ret,       \* what the last pass returned
    passes, events

vars == <<stages, prev, rs, rsCache, pods, rsExpect, podStale, podEventQueues, pc, loc, proc,
          eff, ret, passes, events>>

StageSet == {stages[k] : k \in 1..Len(stages)}

store == <<stages, prev, rs, rsCache, pods, rsExpect, podStale, podEventQueues>>

\* ------------------------------------------------------ initial state
\* No effect recorded for a pass.
NoEffect ==
    [listed |-> FALSE, finAdded |-> FALSE, finRemoved |-> FALSE,
     released |-> {}, claimed |-> {}, moved |-> {}, added |-> {},
     failedWrites |-> {}, releaseAfterClaim |-> FALSE,
     processed |-> FALSE, evaluated |-> {}, expectSet |-> FALSE,
     expectDeleted |-> FALSE, writeBeforeExpect |-> FALSE,
     statusWrites |-> 0, statusFailed |-> FALSE,
     enqueued |-> <<>>, blocked |-> FALSE, cleaned |-> FALSE,
     guardStale |-> FALSE, podGuardStale |-> FALSE, notified |-> FALSE]

NoLocals ==
    [ruleSet |-> [exists |-> FALSE], selectedPods |-> <<>>,
     selectedPodNames |-> {}, result |-> EmptyResult, i |-> 1, toOwn |-> {},
     attempt |-> 0, res |-> EmptyResult, oldStatus |-> EmptyStatus,
     observed |-> 0,
     newStatus |-> EmptyStatus]

NoProc ==
    [task |-> [s \in StageSet |-> "none"], res |-> [s \in StageSet |-> <<>>],
     mu |-> "free", order |-> <<>>, shouldRetry |-> FALSE, interval |-> None,
     details |-> <<>>, ruleStates |-> <<>>]

NoPrev == [ok |-> FALSE, writes |-> <<>>, unfinalized |-> FALSE]

Init ==
    /\ stages = DriverStages
    /\ prev = NoPrev
    /\ rs = [exists |-> TRUE, deleting |-> FALSE, terminating |-> FALSE,
             finalizer |-> FALSE, rv |-> 1, generation |-> 1,
             status |-> EmptyStatus]
    /\ rsCache = rs
    /\ pods = [p \in Pods |-> [exists |-> TRUE, selected |-> p \in Selected0,
                               deleting |-> FALSE, owned |-> FALSE]]
    /\ rsExpect = None
    /\ podStale = {}
    /\ podEventQueues = <<[shuttingDown |-> FALSE, items |-> {}],
                          [shuttingDown |-> TRUE, items |-> {}]>>
    /\ pc = "idle"
    /\ loc = NoLocals
    /\ proc = NoProc
    /\ eff = NoEffect
    /\ ret = [result |-> EmptyResult, err |-> "nil"]
    /\ passes = 0
    /\ events = 0

\* ---------------------------------------------------- the environment
\* Other actors of the cluster. Their changes are taken between two passes;
\* a change that falls inside a pass shows as the answer the store gives to
\* the pass's next call (NotFound, Conflict).
Between == pc = "idle"
EnvStep == Between /\ events < MaxEvents /\ events' = events + 1

\* A pod's labels change: it starts or stops matching the selector.
PodRelabel(p) ==
    /\ EnvStep
    /\ pods[p].exists
    /\ pods' = [pods EXCEPT ![p].selected = ~@]
    /\ UNCHANGED <<stages, prev, rs, rsCache, rsExpect, podStale, podEventQueues, pc, loc,
                   proc, eff, ret, passes>>

\* A pod the selector matches is asked to terminate (its DeletionTimestamp
\* is set).
PodTerminate(p) ==
    /\ EnvStep
    /\ pods[p].exists /\ pods[p].selected /\ ~pods[p].deleting
    /\ pods' = [pods EXCEPT ![p].deleting = TRUE]
    /\ UNCHANGED <<stages, prev, rs, rsCache, rsExpect, podStale, podEventQueues, pc, loc,
                   proc, eff, ret, passes>>

\* A terminating pod leaves the store.
PodRemove(p) ==
    /\ EnvStep
    /\ pods[p].exists /\ pods[p].deleting
    /\ pods' = [pods EXCEPT ![p].exists = FALSE]
    /\ UNCHANGED <<stages, prev, rs, rsCache, rsExpect, podStale, podEventQueues, pc, loc,
                   proc, eff, ret, passes>>

\* The RuleSet is asked to be deleted, labelled terminating beforehand or
\* not: the store sets its DeletionTimestamp (an object without finalizers
\* is removed at once).
RequestDelete(force) ==
    /\ EnvStep
    /\ rs.exists /\ ~rs.deleting
    /\ rs' = [rs EXCEPT !.deleting = TRUE, !.exists = rs.finalizer,
                        !.terminating = force, !.rv = @ + 1]
    /\ UNCHANGED <<stages, prev, rsCache, pods, rsExpect, podStale, podEventQueues, pc, loc,
                   proc, eff, ret, passes>>

\* The RuleSet is labelled ruleset.kafed.kusionstack.io/terminating.
LabelTerminating ==
    /\ EnvStep
    /\ rs.exists /\ rs.deleting /\ ~rs.terminating
    /\ rs' = [rs EXCEPT !.terminating = TRUE, !.rv = @ + 1]
    /\ UNCHANGED <<stages, prev, rsCache, pods, rsExpect, podStale, podEventQueues, pc, loc,
                   proc, eff, ret, passes>>

\* The watch delivers the stored RuleSet to the cache, between two passes or
\* while a pass runs. A pass reads the cache only at its start, and inside a
\* pass the stored RuleSet changes at the finalizer write and at the status
\* write: a delivery anywhere between the two shows what one right after the
\* finalizer write shows, and one after the status write shows what one
\* after the pass shows.
CacheSync ==
    /\ pc \in {"idle", "podguard"}
    /\ rsCache # rs
    /\ rsCache' = rs
    /\ UNCHANGED <<stages, prev, rs, pods, rsExpect, podStale, podEventQueues, pc, loc,
                   proc, eff, ret, passes, events>>

\* A write to a pod the selector matches arms the pod's expectation; the
\* watch event that shows the written version satisfies it again.
PodExpect(p) ==
    /\ EnvStep
    /\ pods[p].exists /\ pods[p].selected
    /\ podStale' = IF p \in podStale THEN podStale \ {p} ELSE podStale \cup {p}
    /\ UNCHANGED <<stages, prev, rs, rsCache, pods, rsExpect, podEventQueues, pc, loc, proc,
                   eff, ret, passes>>

\* ------------------------------------------- the expectation guard
\* ResourceVersionExpectation of rulesetutils (its code is outside this
\* file): a pending record holds the base version of a write; it is
\* satisfied once a newer version is observed, and then forgotten.
SatisfiedExpectations(exp, observed) == exp = None \/ observed > exp
AfterSatisfied(exp, observed) == IF observed > exp THEN None ELSE exp
ExpectUpdate(base) == base
DeleteExpectations == None

\* ------------------------------------------ the ownership annotation
\* rulesetutils.AddRuleSetAnno / MoveRulesetAnno: add or remove the RuleSet's
\* name in the pod's annotation; the result says whether the pod changed.
AddRuleSetAnno(pod) ==
    [changed |-> ~pod.owned, pod |-> [pod EXCEPT !.owned = TRUE]]
MoveRulesetAnno(pod) ==
    [changed |-> pod.owned, pod |-> [pod EXCEPT !.owned = FALSE]]
Mutate(fn, pod) == IF fn = "add" THEN AddRuleSetAnno(pod) ELSE MoveRulesetAnno(pod)

\* What the store answers to r.Get of a pod: NotFound exactly when the pod
\* is gone, or an error of the transport.
GetAnswers(ps, name) ==
    (IF ps[name].exists THEN {"ok"} ELSE {"NotFound"}) \cup {"Error"}
\* What the store answers to the r.Update calls of one updateRuleSetOnPod,
\* call after call (a call beyond the sequence is answered ok).
UpdateAnswers ==
    {<<"ok">>, <<"NotFound">>, <<"Error">>, <<"Conflict", "ok">>}
IsFault(answer) == answer \notin {"ok", "NotFound"}

\* The closure of updateRuleSetOnPod, run once on the caller's object `pod`:
\* r.Get decodes the stored pod into it, fn changes it, r.Update stores it.
\* err is what the closure returns; stored says the mutation reached the
\* store; writeErr is the error r.Update answered with, if any; used counts
\* the update answers consumed; local is the caller's object afterwards.
MutateOnce(ps, name, pod, fn, g, u) ==
    IF g = "NotFound"
    THEN [err |-> "nil", pods |-> ps, stored |-> FALSE, writeErr |-> "nil",
          used |-> 0, fault |-> FALSE, local |-> pod]
    ELSE IF g # "ok"
    THEN [err |-> g, pods |-> ps, stored |-> FALSE, writeErr |-> "nil",
          used |-> 0, fault |-> TRUE, local |-> pod]
    ELSE LET m == Mutate(fn, ps[name]) IN
         IF ~m.changed
         THEN [err |-> "nil", pods |-> ps, stored |-> FALSE,
               writeErr |-> "nil", used |-> 0, fault |-> FALSE,
               local |-> ps[name]]
         ELSE IF u = "ok"
         THEN [err |-> "nil", pods |-> [ps EXCEPT ![name] = m.pod],
               stored |-> TRUE, writeErr |-> "nil", used |-> 1,
               fault |-> FALSE, local |-> m.pod]
         ELSE IF u = "NotFound"
         \* the pod left the store between r.Get and r.Update
         THEN [err |-> "nil", pods |-> [ps EXCEPT ![name].exists = FALSE],
               stored |-> FALSE, writeErr |-> "nil", used |-> 1,
               fault |-> TRUE, local |-> m.pod]
         \* err is tested for NotFound only; the closure then returns nil
         \* and the caller's object keeps what fn did to it
         ELSE [err |-> "nil", pods |-> ps, stored |-> FALSE, writeErr |-> u,
               used |-> 1, fault |-> TRUE, local |-> m.pod]

\* retry.RetryOnConflict: run the closure again while it returns a Conflict,
\* at most `steps` times.
RECURSIVE RetryOnConflict(_, _, _, _, _, _, _)
RetryOnConflict(steps, ps, name, pod, fn, g, us) ==
    LET u == IF us = <<>> THEN "ok" ELSE Head(us)
        r == MutateOnce(ps, name, pod, fn, g, u)
        rest == IF r.used = 0 \/ us = <<>> THEN us ELSE Tail(us)
    IN  IF r.err = "Conflict" /\ steps > 1
        THEN LET n == RetryOnConflict(steps - 1, r.pods, name, r.local, fn,
                                      IF r.pods[name].exists THEN "ok"
                                      ELSE "NotFound", rest)
             IN  [n EXCEPT !.fault = TRUE]
        ELSE r

updateRuleSetOnPod(ps, name, pod, fn, g, us) ==
    RetryOnConflict(RetrySteps, ps, name, pod, fn, g, us)

\* hasRunningPod: some listed pod has no DeletionTimestamp.
hasRunningPod(selected) == \E p \in DOMAIN selected : ~selected[p].deleting

\* ------------------------------------------------- the Reconcile pass
Return(result, err) ==
    /\ ret' = [result |-> result, err |-> err]
    /\ pc' = "done"

Fault == events < MaxEvents /\ events' = events + 1
NoFault == events' = events

\* r.Get of the RuleSet (lines 113-120).
ReconcileGet ==
    /\ pc = "idle"
    /\ passes < MaxPasses
    /\ passes' = passes + 1
    /\ eff' = NoEffect
    /\ proc' = NoProc
    /\ \/ /\ ~rsCache.exists
          /\ NoFault
          /\ loc' = NoLocals
          /\ Return(EmptyResult, "nil")
       \/ /\ rsCache.exists
          /\ Fault
          /\ loc' = NoLocals
          /\ Return(EmptyResult, "Error")
       \/ /\ rsCache.exists
          /\ NoFault
          /\ loc' = [NoLocals EXCEPT !.ruleSet = rsCache,
                                     !.oldStatus = rsCache.status,
                                     !.observed = rsCache.rv]
          /\ pc' = "guard"
          /\ UNCHANGED ret
    /\ UNCHANGED store

\* (mutant) The pass goes on whatever the guard answers.
ReconcileGuardIgnored ==
    /\ pc = "guard"
    /\ rsExpect' = AfterSatisfied(rsExpect, loc.ruleSet.rv)
    /\ pc' = "list"
    /\ UNCHANGED <<stages, prev, rs, rsCache, pods, podStale, podEventQueues,
                   loc, proc, eff, ret, passes, events>>

\* The guard on the RuleSet's own expectation (lines 122-126).
ReconcileGuard ==
    /\ pc = "guard"
    /\ IF ~SatisfiedExpectations(rsExpect, loc.ruleSet.rv)
       THEN /\ eff' = [eff EXCEPT !.guardStale = TRUE]
            /\ Return(EmptyResult, "nil")
            /\ UNCHANGED rsExpect
       ELSE /\ rsExpect' = AfterSatisfied(rsExpect, loc.ruleSet.rv)
            /\ pc' = "list"
            /\ UNCHANGED <<eff, ret>>
    /\ UNCHANGED <<stages, prev, rs, rsCache, pods, podStale, podEventQueues, loc, proc,
                   passes, events>>

\* r.List of the pods the selector matches (lines 128-133).
ReconcileList ==
    /\ pc = "list"
    /\ \/ /\ Fault
          /\ Return(EmptyResult, "Error")
          /\ UNCHANGED <<loc, eff>>
       \/ /\ NoFault
          /\ loc' = [loc EXCEPT !.selectedPods =
                        [p \in {q \in Pods : pods[q].exists /\ pods[q].selected}
                            |-> pods[p]]]
          /\ eff' = [eff EXCEPT !.listed = TRUE]
          /\ pc' = "delete"
          /\ UNCHANGED ret
    /\ UNCHANGED <<store, proc, passes>>

\* What the store answers to a write of the RuleSet object `obj`: NotFound
\* when the RuleSet is gone, Conflict when obj was read at an older version.
WriteAnswer(obj) ==
    IF ~rs.exists THEN "NotFound"
    ELSE IF obj.rv # rs.rv THEN "Conflict"
    ELSE "ok"

\* The deletion branch, deletion permitted (lines 136-137): the RuleSet is
\* terminating and carries the terminating label or no listed pod runs.
DeletePermitted ==
    /\ pc = "delete"
    /\ loc.ruleSet.deleting
    /\ loc.ruleSet.terminating \/ ~hasRunningPod(loc.selectedPods)
    /\ loc' = [loc EXCEPT !.i = 1]
    /\ pc' = "cleanup"
    /\ UNCHANGED <<store, proc, eff, ret, passes, events>>

\* The deletion branch, deletion blocked (lines 143-145): the warning event
\* is recorded, result.RequeueAfter is set, and the pass goes on at line 150.
DeleteBlocked ==
    /\ pc = "delete"
    /\ loc.ruleSet.deleting
    /\ ~(loc.ruleSet.terminating \/ ~hasRunningPod(loc.selectedPods))
    /\ loc' = [loc EXCEPT !.result.RequeueAfter = BlockRequeueAfter]
    /\ eff' = [eff EXCEPT !.blocked = TRUE]
    /\ pc' = "podguard"
    /\ UNCHANGED <<store, proc, ret, passes, events>>

\* utils.AddFinalizer (lines 146-148; its code is outside this file): the
\* finalizer is written unless the object read already carries it.
AddFinalizer ==
    /\ pc = "delete"
    /\ ~loc.ruleSet.deleting
    /\ IF loc.ruleSet.finalizer
       THEN /\ pc' = "podguard"
            /\ NoFault
            /\ UNCHANGED <<rs, loc, eff, ret>>
       ELSE \/ /\ WriteAnswer(loc.ruleSet) = "ok"
               /\ NoFault
               /\ rs' = [rs EXCEPT !.finalizer = TRUE, !.rv = @ + 1]
               /\ loc' = [loc EXCEPT !.ruleSet.finalizer = TRUE,
                                     !.ruleSet.rv = rs.rv + 1]
               /\ eff' = [eff EXCEPT !.finAdded = TRUE]
               /\ pc' = "podguard"
               /\ UNCHANGED ret
            \/ /\ WriteAnswer(loc.ruleSet) # "ok"
               /\ NoFault
               /\ Return(loc.result, "Error")
               /\ UNCHANGED <<rs, loc, eff>>
            \/ /\ WriteAnswer(loc.ruleSet) = "ok"
               /\ Fault
               /\ Return(loc.result, "Error")
               /\ UNCHANGED <<rs, loc, eff>>
    /\ UNCHANGED <<stages, prev, rsCache, pods, rsExpect, podStale, podEventQueues, proc,
                   passes>>

\* The effect of one updateRuleSetOnPod call on the store and the history.
OwnershipCall(name, pod, fn, g, us) ==
    LET r == updateRuleSetOnPod(pods, name, pod, fn, g, us) IN
    /\ IF r.fault THEN Fault ELSE NoFault
    /\ pods' = r.pods
    /\ eff' = [eff EXCEPT
          !.released = IF fn = "move" THEN @ \cup {name} ELSE @,
          !.claimed = IF fn = "add" THEN @ \cup {name} ELSE @,
          !.moved = IF fn = "move" /\ r.stored THEN @ \cup {name} ELSE @,
          !.added = IF fn = "add" /\ r.stored THEN @ \cup {name} ELSE @,
          !.failedWrites = IF r.writeErr # "nil"
                           THEN @ \cup {<<fn, name, r.writeErr>>} ELSE @,
          !.releaseAfterClaim = @ \/ (fn = "move" /\ eff.claimed # {})]

OwnershipErr(name, pod, fn, g, us) ==
    updateRuleSetOnPod(pods, name, pod, fn, g, us).err
\* The caller's pod object after the call.
OwnershipLocal(name, pod, fn, g, us) ==
    updateRuleSetOnPod(pods, name, pod, fn, g, us).local

\* &corev1.Pod{ObjectMeta{Name, Namespace}} (line 170): an object that
\* carries a name only.
NamedPod ==
    [exists |-> TRUE, selected |-> FALSE, deleting |-> FALSE, owned |-> FALSE]

\* cleanUpPod (lines 302-316), one turn of its loop over Status.Targets.
cleanUpPod ==
    /\ pc = "cleanup"
    /\ LET targets == loc.ruleSet.status.Targets IN
       IF loc.i > Len(targets)
       THEN /\ pc' = "unfinalize"
            /\ eff' = [eff EXCEPT !.cleaned = TRUE]
            /\ NoFault
            /\ UNCHANGED <<pods, loc, ret>>
       ELSE LET name == targets[loc.i] IN
            \E g0 \in GetAnswers(pods, name) :
              IF g0 = "NotFound"
              THEN /\ loc' = [loc EXCEPT !.i = @ + 1]
                   /\ NoFault
                   /\ UNCHANGED <<pods, eff, ret, pc>>
              ELSE IF g0 # "ok"
              THEN /\ Fault
                   /\ Return(EmptyResult, g0)
                   /\ UNCHANGED <<pods, loc, eff>>
              ELSE \E g \in GetAnswers(pods, name), us \in UpdateAnswers :
                   /\ OwnershipCall(name, pods[name], "move", g, us)
                   /\ IF OwnershipErr(name, pods[name], "move", g, us) # "nil"
                      THEN /\ Return(EmptyResult, "Error")
                           /\ UNCHANGED loc
                      ELSE /\ loc' = [loc EXCEPT !.i = @ + 1]
                           /\ UNCHANGED <<ret, pc>>
    /\ UNCHANGED <<stages, prev, rs, rsCache, rsExpect, podStale, podEventQueues, proc,
                   passes>>

\* utils.RemoveFinalizer (line 141; its code is outside this file): the
\* finalizer is removed; a terminating object without finalizers leaves the
\* store.
RemoveFinalizer ==
    /\ pc = "unfinalize"
    /\ \/ /\ WriteAnswer(loc.ruleSet) = "ok"
          /\ NoFault
          /\ rs' = [rs EXCEPT !.finalizer = FALSE, !.rv = @ + 1,
                              !.exists = FALSE]
          /\ eff' = [eff EXCEPT !.finRemoved = TRUE]
          /\ prev' = [prev EXCEPT !.unfinalized = TRUE]
          /\ Return(EmptyResult, "nil")
       \/ /\ WriteAnswer(loc.ruleSet) # "ok"
          /\ NoFault
          /\ Return(EmptyResult, WriteAnswer(loc.ruleSet))
          /\ UNCHANGED <<rs, eff, prev>>
       \/ /\ WriteAnswer(loc.ruleSet) = "ok"
          /\ Fault
          /\ Return(EmptyResult, "Error")
          /\ UNCHANGED <<rs, eff, prev>>
    /\ UNCHANGED <<stages, rsCache, pods, rsExpect, podStale, podEventQueues, loc,
                   proc, passes>>

\* The guard on every listed pod's expectation (lines 150-161).
PodGuard ==
    /\ pc = "podguard"
    /\ IF \E p \in DOMAIN loc.selectedPods : p \in podStale
       THEN /\ eff' = [eff EXCEPT !.podGuardStale = TRUE]
            /\ Return(EmptyResult, "nil")
            /\ UNCHANGED loc
       ELSE /\ loc' = [loc EXCEPT !.selectedPodNames = DOMAIN loc.selectedPods,
                                  !.i = 1,
                                  !.toOwn = DOMAIN loc.selectedPods]
            /\ pc' = "release"
            /\ UNCHANGED <<eff, ret>>
    /\ UNCHANGED <<store, proc, passes, events>>

\* (mutant) Every recorded target is released, selected or not.
RemoveRecorded ==
    /\ pc = "release"
    /\ LET targets == loc.ruleSet.status.Targets IN
       IF loc.i > Len(targets)
       THEN /\ pc' = "own"
            /\ NoFault
            /\ UNCHANGED <<pods, loc, eff, ret>>
       ELSE LET name == targets[loc.i] IN
            \E g \in GetAnswers(pods, name), us \in UpdateAnswers :
            /\ OwnershipCall(name, NamedPod, "move", g, us)
            /\ IF OwnershipErr(name, NamedPod, "move", g, us) # "nil"
               THEN /\ Return(loc.result, OwnershipErr(name, NamedPod, "move", g, us))
                    /\ UNCHANGED loc
               ELSE /\ loc' = [loc EXCEPT !.i = @ + 1]
                    /\ UNCHANGED <<ret, pc>>
    /\ UNCHANGED <<stages, prev, rs, rsCache, rsExpect, podStale,
                   podEventQueues, proc, passes>>

\* "remove unselected pods" (lines 163-175), one turn of the loop over
\* Status.Targets.
RemoveUnselected ==
    /\ pc = "release"
    /\ LET targets == loc.ruleSet.status.Targets IN
       IF loc.i > Len(targets)
       THEN /\ pc' = "own"
            /\ NoFault
            /\ UNCHANGED <<pods, loc, eff, ret>>
       ELSE LET name == targets[loc.i] IN
            IF name \in loc.selectedPodNames
            THEN /\ loc' = [loc EXCEPT !.i = @ + 1]
                 /\ NoFault
                 /\ UNCHANGED <<pods, eff, ret, pc>>
            ELSE \E g \in GetAnswers(pods, name), us \in UpdateAnswers :
                 /\ OwnershipCall(name, NamedPod, "move", g, us)
                 /\ IF OwnershipErr(name, NamedPod, "move", g, us) # "nil"
                    THEN /\ Return(loc.result, OwnershipErr(name, NamedPod, "move", g, us))
                         /\ UNCHANGED loc
                    ELSE /\ loc' = [loc EXCEPT !.i = @ + 1]
                         /\ UNCHANGED <<ret, pc>>
    /\ UNCHANGED <<stages, prev, rs, rsCache, rsExpect, podStale, podEventQueues, proc,
                   passes>>

\* "own selected pods" (lines 177-183), one turn of the loop over the map
\* targetPods, whose order Go leaves open. targetPods points into
\* selectedPods.Items (line 160), so the call writes the listed pod.
OwnSelected ==
    /\ pc = "own"
    /\ IF loc.toOwn = {}
       THEN /\ pc' = "process"
            /\ NoFault
            /\ UNCHANGED <<pods, loc, eff, ret>>
       ELSE \E name \in loc.toOwn :
            \E g \in GetAnswers(pods, name), us \in UpdateAnswers :
            /\ OwnershipCall(name, loc.selectedPods[name], "add", g, us)
            /\ IF OwnershipErr(name, loc.selectedPods[name], "add", g, us) # "nil"
               THEN /\ Return(loc.result, OwnershipErr(name, loc.selectedPods[name], "add", g, us))
                    /\ UNCHANGED loc
               ELSE /\ loc' = [loc EXCEPT
                          !.toOwn = @ \ {name},
                          !.selectedPods[name] =
                              OwnershipLocal(name, loc.selectedPods[name],
                                             "add", g, us)]
                    /\ UNCHANGED <<ret, pc>>
    /\ UNCHANGED <<stages, prev, rs, rsCache, rsExpect, podStale, podEventQueues, proc,
                   passes>>

\* ------------------------------------------------------------ process
\* What processor.Process may return for a stage evaluated on the pods P:
\* a ProcessResult {Interval, RuleStates, Retry, PassRules, Rejected}.
ProcessResults(stage, P, intervals, retries) ==
    {[Interval |-> iv, Retry |-> rt, RuleStates |-> st,
      PassRules |-> [po \in pass |-> {RuleOf(stage)}],
      Rejected |-> [po \in rej |-> [RuleName |-> RuleOf(stage),
                                     Reason |-> "rejected"]]] :
        iv \in intervals, rt \in retries,
        st \in {<<>>, <<[Name |-> RuleOf(stage)]>>},
        pass \in SUBSET P, rej \in SUBSET P}

\* The results explored for process alone: a stage that only asks for a
\* retry, or one that only reports on pods.
MergeResults(stage, P) ==
    {r \in ProcessResults(stage, P, Intervals, BOOLEAN) :
        DOMAIN r.PassRules = {} /\ DOMAIN r.Rejected = {} /\ r.RuleStates = <<>>}
    \cup ProcessResults(stage, P, {None}, {FALSE})

\* The results explored inside a whole Reconcile pass: a stage reports its
\* rule's state and every pod; it passes them all, or it rejects the last
\* one and asks for a retry after 2 seconds.
Last(P) == {p \in P : \A q \in P : Rank(q) <= Rank(p)}
DriverResults(stage, P) ==
    {r \in ProcessResults(stage, P, {None}, {FALSE}) :
        /\ DOMAIN r.PassRules = P
        /\ DOMAIN r.Rejected = {}
        /\ r.RuleStates # <<>>}
    \cup
    {r \in ProcessResults(stage, P, {2}, {TRUE}) :
        /\ DOMAIN r.PassRules = P
        /\ DOMAIN r.Rejected = Last(P) /\ P # {}
        /\ r.RuleStates # <<>>}

\* (mutant) Passed is taken from the reporting stage alone.
updateDetailLastStage(details, passRules, stage) ==
    LET upd(po) ==
            LET rejectInfo ==
                    IF po \in DOMAIN passRules.Rejected
                    THEN <<[RuleName |-> passRules.Rejected[po].RuleName,
                            Reason |-> passRules.Rejected[po].Reason]>>
                    ELSE <<>>
                detail ==
                    IF po \in DOMAIN details THEN details[po]
                    ELSE [Name |-> po, Stage |-> stage, Passed |-> FALSE,
                          PassedRules |-> <<>>, RejectInfo |-> <<>>]
            IN  [detail EXCEPT
                    !.PassedRules = @ \o List(passRules.PassRules[po]),
                    !.RejectInfo = @ \o rejectInfo,
                    !.Passed = (Len(rejectInfo) = 0)]
    IN  [po \in DOMAIN details \cup DOMAIN passRules.PassRules |->
            IF po \in DOMAIN passRules.PassRules THEN upd(po)
            ELSE details[po]]

\* updateDetail (lines 345-368).
updateDetail(details, passRules, stage) ==
    LET upd(po) ==
            LET rejectInfo ==
                    IF po \in DOMAIN passRules.Rejected
                    THEN <<[RuleName |-> passRules.Rejected[po].RuleName,
                            Reason |-> passRules.Rejected[po].Reason]>>
                    ELSE <<>>
                detail ==
                    IF po \in DOMAIN details THEN details[po]
                    ELSE [Name |-> po, Stage |-> stage, Passed |-> FALSE,
                          PassedRules |-> <<>>, RejectInfo |-> <<>>]
                info == detail.RejectInfo \o rejectInfo
            IN  [detail EXCEPT
                    !.PassedRules = @ \o List(passRules.PassRules[po]),
                    !.RejectInfo = info,
                    !.Passed = (Len(info) = 0)]
    IN  [po \in DOMAIN details \cup DOMAIN passRules.PassRules |->
            IF po \in DOMAIN passRules.PassRules THEN upd(po)
            ELSE details[po]]

\* (mutant) The later interval wins over the earlier one.
mergeIntervalMax(interval, res) ==
    IF res.Interval # None /\ (interval = None \/ interval < res.Interval)
    THEN res.Interval ELSE interval

\* The merge of one stage's result under the mutex (lines 249-260).
mergeInterval(interval, res) ==
    IF res.Interval # None /\ (interval = None \/ interval > res.Interval)
    THEN res.Interval ELSE interval

mergeRetry(shouldRetry, res) == IF res.Retry THEN TRUE ELSE shouldRetry

\* (mutant) The RuleStates of the stage replace those merged before.
mergeRuleStatesOverwrite(ruleStates, res) ==
    IF res.RuleStates # <<>> THEN res.RuleStates ELSE ruleStates

mergeRuleStates(ruleStates, res) ==
    IF res.RuleStates # <<>> THEN ruleStates \o res.RuleStates ELSE ruleStates

\* process, up to the start of the stage tasks (lines 237-245).
process ==
    /\ pc = "process"
    /\ proc' = [NoProc EXCEPT !.task = [s \in StageSet |-> "run"]]
    /\ eff' = [eff EXCEPT !.processed = TRUE]
    /\ pc' = "stages"
    /\ UNCHANGED <<store, loc, ret, passes, events>>

\* A stage task evaluates its stage (line 246), the mutex not held.
StageProcess(stage, results) ==
    /\ pc = "stages"
    /\ proc.task[stage] = "run"
    /\ \E res \in results :
          proc' = [proc EXCEPT !.task[stage] = "evaluated",
                               !.res[stage] = res]
    /\ eff' = [eff EXCEPT !.evaluated = @ \cup {stage}]
    /\ UNCHANGED <<store, pc, loc, ret, passes, events>>

\* mu.Lock() (line 247).
StageLock(stage) ==
    /\ pc = "stages"
    /\ proc.task[stage] = "evaluated"
    /\ proc.mu = "free"
    /\ proc' = [proc EXCEPT !.task[stage] = "locked", !.mu = stage]
    /\ UNCHANGED <<store, pc, loc, eff, ret, passes, events>>

\* The merge, then the deferred mu.Unlock() and wg.Done() (lines 249-261).
StageMerge(stage) ==
    /\ pc = "stages"
    /\ proc.task[stage] = "locked"
    /\ LET res == proc.res[stage] IN
       proc' = [proc EXCEPT
          !.interval = mergeInterval(@, res),
          !.ruleStates = mergeRuleStates(@, res),
          !.shouldRetry = mergeRetry(@, res),
          !.details = updateDetail(@, res, stage),
          !.order = Append(@, stage),
          !.mu = "free",
          !.task[stage] = "done"]
    /\ UNCHANGED <<store, pc, loc, eff, ret, passes, events>>

\* wg.Wait() and the return of process (lines 263-264); res of Reconcile
\* (lines 188-193).
ProcessJoin ==
    /\ pc = "stages"
    /\ \A s \in StageSet : proc.task[s] = "done"
    /\ loc' = [loc EXCEPT !.res =
                  [Requeue |-> proc.shouldRetry,
                   RequeueAfter |-> IF proc.interval # None THEN proc.interval
                                    ELSE 0]]
    /\ pc' = "status"
    /\ UNCHANGED <<store, proc, eff, ret, passes, events>>

\* ------------------------------------------------------------- status
\* The orders in which `for key := range details` may yield the keys of the
\* map (lines 198-201): Go leaves the order open.
RangeKeys(details) ==
    {ks \in [1..Cardinality(DOMAIN details) -> DOMAIN details] :
        \A a, b \in DOMAIN ks : a # b => ks[a] # ks[b]}

\* (mutant) The keys stay in the order the map yielded them.
sortStringsSkipped(keys) == keys

\* sort.Strings(keys) (line 203).
RECURSIVE sortStrings(_)
sortStrings(keys) ==
    IF keys = <<>> THEN <<>>
    ELSE LET rest == sortStrings(Tail(keys))
             before == SelectSeq(rest, LAMBDA x : Rank(x) < Rank(Head(keys)))
             after == SelectSeq(rest, LAMBDA x : Rank(x) >= Rank(Head(keys)))
         IN  before \o <<Head(keys)>> \o after

\* The snapshot built from the pass (lines 197-215), the map having yielded
\* its keys in the order rangeKeys.
NewStatus(selectedPodNames, generation, details, ruleStates, now, rangeKeys) ==
    LET keys == sortStrings(rangeKeys) IN
    [Targets |-> List(selectedPodNames),
     ObservedGeneration |-> generation,
     Details |-> [k \in 1..Len(keys) |-> details[keys[k]]],
     RuleStates |-> ruleStates,
     UpdateTime |-> now]

\* equalStatus (lines 370-375); equality.Semantic.DeepEqual takes a nil and
\* an empty slice for equal, as the empty sequence here.
equalStatus(updated, current) ==
    /\ updated.Targets = current.Targets
    /\ updated.Details = current.Details
    /\ updated.RuleStates = current.RuleStates
    /\ updated.ObservedGeneration = current.ObservedGeneration

\* The comparison with the stored status, and on a difference ExpectUpdate
\* and the assignment to ruleSet.Status (lines 197-219).
CompareStatus ==
    /\ pc = "status"
    /\ \E rangeKeys \in RangeKeys(proc.details) :
       LET newStatus == NewStatus(loc.selectedPodNames, loc.ruleSet.generation,
                                  proc.details, proc.ruleStates, passes,
                                  rangeKeys)
       IN IF ~equalStatus(newStatus, loc.ruleSet.status)
          THEN /\ rsExpect' = ExpectUpdate(loc.ruleSet.rv)
               /\ loc' = [loc EXCEPT !.newStatus = newStatus,
                                     !.ruleSet.status = newStatus]
               /\ eff' = [eff EXCEPT !.expectSet = TRUE]
               /\ pc' = "write"
          ELSE /\ loc' = [loc EXCEPT !.newStatus = newStatus]
               /\ pc' = "notify"
               /\ UNCHANGED <<rsExpect, eff>>
    /\ UNCHANGED <<stages, prev, rs, rsCache, pods, podStale, podEventQueues, proc, ret,
                   passes, events>>

\* The history of status writes, with the one the pass issues now: the
\* pass, the version of the RuleSet it writes from, and whether the store
\* took the write.
Written(ok) ==
    [prev EXCEPT !.writes = Append(@, [pass |-> passes,
                                       base |-> loc.ruleSet.rv,
                                       ok |-> ok])]

\* (mutant) A failed status write leaves the expectation in place.
StatusUpdateKeepsExpectation ==
    /\ pc = "write"
    /\ \/ /\ WriteAnswer(loc.ruleSet) = "ok"
          /\ NoFault
          /\ rs' = [rs EXCEPT !.status = loc.ruleSet.status, !.rv = @ + 1]
          /\ loc' = [loc EXCEPT !.ruleSet.rv = rs.rv + 1]
          /\ eff' = [eff EXCEPT !.statusWrites = @ + 1]
          /\ prev' = Written(TRUE)
          /\ pc' = "notify"
          /\ UNCHANGED <<rsExpect, ret>>
       \/ /\ WriteAnswer(loc.ruleSet) # "ok"
          /\ NoFault
          /\ eff' = [eff EXCEPT !.statusWrites = @ + 1,
                                !.statusFailed = TRUE]
          /\ prev' = Written(FALSE)
          /\ Return(EmptyResult, WriteAnswer(loc.ruleSet))
          /\ UNCHANGED <<rs, loc, rsExpect>>
       \/ /\ WriteAnswer(loc.ruleSet) = "ok"
          /\ Fault
          /\ eff' = [eff EXCEPT !.statusWrites = @ + 1,
                                !.statusFailed = TRUE]
          /\ prev' = Written(FALSE)
          /\ Return(EmptyResult, "Error")
          /\ UNCHANGED <<rs, loc, rsExpect>>
    /\ UNCHANGED <<stages, rsCache, pods, podStale, podEventQueues, proc, passes>>

\* r.Status().Update (lines 220-224).
StatusUpdate ==
    /\ pc = "write"
    /\ \/ /\ WriteAnswer(loc.ruleSet) = "ok"
          /\ NoFault
          /\ rs' = [rs EXCEPT !.status = loc.ruleSet.status, !.rv = @ + 1]
          /\ loc' = [loc EXCEPT !.ruleSet.rv = rs.rv + 1]
          /\ eff' = [eff EXCEPT !.statusWrites = @ + 1]
          /\ prev' = Written(TRUE)
          /\ pc' = "notify"
          /\ UNCHANGED <<rsExpect, ret>>
       \/ /\ WriteAnswer(loc.ruleSet) # "ok"
          /\ NoFault
          /\ rsExpect' = DeleteExpectations
          /\ eff' = [eff EXCEPT !.statusWrites = @ + 1,
                                !.statusFailed = TRUE,
                                !.expectDeleted = TRUE]
          /\ prev' = Written(FALSE)
          /\ Return(EmptyResult, WriteAnswer(loc.ruleSet))
          /\ UNCHANGED <<rs, loc>>
       \/ /\ WriteAnswer(loc.ruleSet) = "ok"
          /\ Fault
          /\ rsExpect' = DeleteExpectations
          /\ eff' = [eff EXCEPT !.statusWrites = @ + 1,
                                !.statusFailed = TRUE,
                                !.expectDeleted = TRUE]
          /\ prev' = Written(FALSE)
          /\ Return(EmptyResult, "Error")
          /\ UNCHANGED <<rs, loc>>
    /\ UNCHANGED <<stages, rsCache, pods, podStale, podEventQueues, proc, passes>>

\* ------------------------------------------------------- notification
\* addToEveryQueue (lines 290-300).
addToEveryQueue(queues, name) ==
    [k \in DOMAIN queues |->
        IF queues[k].shuttingDown THEN queues[k]
        ELSE [queues[k] EXCEPT !.items = @ \cup {name}]]

\* The names addQueues hands to addToEveryQueue (lines 271-287).
addQueuesNames(details, oldDetails) ==
    {name \in DOMAIN oldDetails :
        \/ name \notin DOMAIN details
        \/ oldDetails[name] # details[name]}
    \cup {name \in DOMAIN details : name \notin DOMAIN oldDetails}

RECURSIVE addAll(_, _)
addAll(queues, names) ==
    IF names = {} THEN queues
    ELSE LET n == CHOOSE x \in names : TRUE
         IN  addAll(addToEveryQueue(queues, n), names \ {n})

\* addQueues (lines 267-288).
addQueues(queues, details, oldDetails) ==
    IF Len(queues) = 0 THEN queues
    ELSE addAll(queues, addQueuesNames(details, oldDetails))

\* oldDetails of Reconcile (lines 227-231): read from ruleSet.Status, which
\* line 219 has overwritten when the status differed.
oldDetailsOf(ruleSet) ==
    [name \in {ruleSet.status.Details[k].Name :
                 k \in 1..Len(ruleSet.status.Details)} |->
        LET k == CHOOSE j \in 1..Len(ruleSet.status.Details) :
                    ruleSet.status.Details[j].Name = name
        IN  ruleSet.status.Details[k]]

\* The end of a pass that got through (lines 227-233).
Notify ==
    /\ pc = "notify"
    /\ LET oldDetails == oldDetailsOf(loc.ruleSet)
           names == IF Len(podEventQueues) = 0 THEN {}
                    ELSE addQueuesNames(proc.details, oldDetails)
       IN /\ podEventQueues' = addQueues(podEventQueues, proc.details, oldDetails)
          /\ eff' = [eff EXCEPT !.enqueued =
                        [k \in DOMAIN podEventQueues |->
                            IF podEventQueues[k].shuttingDown THEN {}
                            ELSE names],
                        !.notified = TRUE]
    /\ prev' = [ok |-> TRUE, selected |-> loc.selectedPodNames,
                res |-> proc.res, pods |-> pods,
                generation |-> loc.ruleSet.generation,
                status |-> loc.newStatus,
                writes |-> prev.writes,
                unfinalized |-> prev.unfinalized]
    /\ Return(loc.res, "nil")
    /\ UNCHANGED <<stages, rs, rsCache, pods, rsExpect, podStale, loc, proc,
                   passes, events>>

\* The caller takes the result: the locals of the pass are gone.
Finish ==
    /\ pc = "done"
    /\ pc' = "idle"
    /\ loc' = NoLocals
    /\ proc' = NoProc
    /\ eff' = NoEffect
    /\ ret' = [result |-> EmptyResult, err |-> "nil"]
    /\ UNCHANGED <<store, passes, events>>

\* ------------------------------------------------------ specification
Environment ==
    \/ \E p \in Pods : PodRelabel(p)
    \/ \E p \in Pods : PodTerminate(p)
    \/ \E p \in Pods : PodRemove(p)
    \/ \E p \in Pods : PodExpect(p)
    \/ \E force \in BOOLEAN : RequestDelete(force)
    \/ LabelTerminating
    \/ CacheSync

Next ==
    \/ Environment
    \/ ReconcileGet
    \/ ReconcileGuard
    \/ ReconcileList
    \/ DeletePermitted
    \/ DeleteBlocked
    \/ AddFinalizer
    \/ cleanUpPod
    \/ RemoveFinalizer
    \/ PodGuard
    \/ RemoveUnselected
    \/ OwnSelected
    \/ process
    \/ \E s \in StageSet : StageProcess(s, DriverResults(s, DOMAIN loc.selectedPods))
    \/ \E s \in StageSet : StageLock(s)
    \/ \E s \in StageSet : StageMerge(s)
    \/ ProcessJoin
    \/ CompareStatus
    \/ StatusUpdate
    \/ Notify
    \/ Finish

Spec == Init /\ [][Next]_vars

\* process and the end of the pass on their own: the first pass of a new
\* RuleSet has reached line 186 with the pods P listed and owned.
ProcessConfigs ==
    {[stages |-> <<"s1", "s2">>, pods |-> {"X", "Y"}],
     [stages |-> <<"s1", "s2", "s3">>, pods |-> {"X"}]}

InitProcess ==
    /\ prev = NoPrev
    /\ rs = [exists |-> TRUE, deleting |-> FALSE, terminating |-> FALSE,
             finalizer |-> TRUE, rv |-> 2, generation |-> 1,
             status |-> EmptyStatus]
    /\ rsCache = [rs EXCEPT !.finalizer = FALSE, !.rv = 1]
    /\ \E cfg \in ProcessConfigs : LET P == cfg.pods IN
          /\ stages = cfg.stages
          /\ pods = [p \in Pods |-> [exists |-> TRUE, selected |-> p \in P,
                                     deleting |-> FALSE, owned |-> p \in P]]
          /\ loc = [NoLocals EXCEPT
                      !.ruleSet = rs,
                      !.observed = 1,
                      !.selectedPods = [p \in P |->
                          [exists |-> TRUE, selected |-> TRUE,
                           deleting |-> FALSE, owned |-> TRUE]],
                      !.selectedPodNames = P]
          /\ eff = [NoEffect EXCEPT !.listed = TRUE, !.finAdded = TRUE,
                                    !.claimed = P, !.added = P]
    /\ rsExpect = None
    /\ podStale = {}
    /\ podEventQueues = <<[shuttingDown |-> FALSE, items |-> {}],
                          [shuttingDown |-> TRUE, items |-> {}]>>
    /\ pc = "process"
    /\ proc = NoProc
    /\ ret = [result |-> EmptyResult, err |-> "nil"]
    /\ passes = 1
    /\ events = 0

NextProcess ==
    \/ process
    \/ \E s \in StageSet : StageProcess(s, MergeResults(s, DOMAIN loc.selectedPods))
    \/ \E s \in StageSet : StageLock(s)
    \/ \E s \in StageSet : StageMerge(s)
    \/ ProcessJoin
    \/ CompareStatus
    \/ StatusUpdate
    \/ Notify

SpecProcess == InitProcess /\ [][NextProcess]_vars

\* ------------------------------------------------------------- claims
\* The pass runs on a RuleSet it read with its DeletionTimestamp set.
DeletingPass == loc.ruleSet.exists /\ loc.ruleSet.deleting

\* The pass has found deletion blocked: a listed pod runs and the RuleSet
\* does not carry the terminating label.
BlockedPass ==
    /\ DeletingPass
    /\ eff.listed
    /\ ~loc.ruleSet.terminating
    /\ hasRunningPod(loc.selectedPods)

\* The pass has found deletion permitted.
PermittedPass ==
    /\ DeletingPass
    /\ eff.listed
    /\ loc.ruleSet.terminating \/ ~hasRunningPod(loc.selectedPods)

\* C1: a pass that finds deletion blocked leaves the finalizer on the
\* RuleSet and applies the remove-ownership mutation to no pod.
C1_BlockedReleasesNothing ==
    BlockedPass => ~eff.finRemoved /\ eff.moved = {}

\* C2: a pass on a RuleSet that is being deleted claims no pod, evaluates no
\* stage and issues no status write.
C2_DeletionSkipsPipeline ==
    DeletingPass =>
        /\ eff.claimed = {} /\ eff.added = {}
        /\ ~eff.processed /\ eff.evaluated = {}
        /\ ~eff.expectSet /\ eff.statusWrites = 0

\* The Details of a status, by pod name.
DetailsByName(status) ==
    [name \in {status.Details[k].Name : k \in 1..Len(status.Details)} |->
        status.Details[CHOOSE k \in 1..Len(status.Details) :
                          status.Details[k].Name = name]]

\* The names whose Detail differs between two sets of Details, those on one
\* side only included.
Differing(old, new) ==
    {name \in DOMAIN old \cup DOMAIN new :
        ~(name \in DOMAIN old /\ name \in DOMAIN new /\ old[name] = new[name])}

\* C3: when a pass gets through, every sink that is not shutting down has
\* been handed exactly the names whose Detail in the status stored before
\* the pass differs from the Detail the pass computed.
C3_NotifiesChangedNames ==
    (pc = "done" /\ eff.notified /\ ret.err = "nil" /\ Len(podEventQueues) > 0)
    => \A k \in DOMAIN podEventQueues :
          ~podEventQueues[k].shuttingDown =>
              eff.enqueued[k] = Differing(DetailsByName(loc.oldStatus),
                                          proc.details)

\* Every stage task of the pass has merged its result.
AllMerged == StageSet # {} /\ \A s \in StageSet : proc.task[s] = "done"

\* The pass meets the inputs of the last pass that got through: the same
\* selection, stage results and pods, and the status that pass left.
SameInputs ==
    /\ prev.ok
    /\ AllMerged
    /\ prev.selected = loc.selectedPodNames
    /\ prev.res = proc.res
    /\ prev.pods = pods
    /\ prev.generation = loc.ruleSet.generation
    /\ prev.status = loc.oldStatus

\* C4: a pass that meets the inputs of the pass before it registers no
\* expectation and issues no status write, in whatever order its stage
\* tasks merged.
C4_SecondPassWritesNothing ==
    (SameInputs /\ pc \in {"write", "notify"})
    => ~eff.expectSet /\ eff.statusWrites = 0

\* The guard is about to answer that the RuleSet's expectation is not
\* satisfied.
GuardUnsatisfied ==
    pc = "guard" /\ ~SatisfiedExpectations(rsExpect, loc.ruleSet.rv)

\* C5: the step a pass takes when the RuleSet's expectation is not satisfied
\* (the watch may deliver to the cache meanwhile) ends the pass with an empty result and a nil error, changes nothing in
\* the store, the expectations and the queues, and the pass has listed,
\* mutated, evaluated, written and enqueued nothing.
C5_StaleViewNoOp ==
    [][(GuardUnsatisfied /\ pc' # pc) =>
          /\ pc' = "done"
          /\ ret' = [result |-> EmptyResult, err |-> "nil"]
          /\ eff = NoEffect
          /\ eff' = [NoEffect EXCEPT !.guardStale = TRUE]
          /\ UNCHANGED <<rs, rsCache, pods, rsExpect, podStale, podEventQueues>>
      ]_vars

\* C5 (witness): a pass has ended on the unsatisfied expectation that the
\* status write of the pass before it registered.
C5_Witness ==
    pc = "done" /\ eff.guardStale /\ rsExpect # None /\ passes = 2

\* C6: when a pass removes the finalizer, no pod recorded in the stored
\* Status.Targets that still exists carries the ownership annotation.
C6_PermittedReleasesAll ==
    (PermittedPass /\ eff.finRemoved) =>
        \A name \in Range(loc.ruleSet.status.Targets) :
            ~pods[name].exists \/ ~pods[name].owned

\* C7: when the write of an ownership mutation ends in an error other than
\* NotFound and Conflict, the pass ends with an error, having evaluated no
\* stage and written no status.
C7_OwnershipErrorsSurfaced ==
    (\E w \in eff.failedWrites : w[3] = "Error")
    => /\ pc = "done" /\ ret.err # "nil"
       /\ ~eff.processed /\ eff.statusWrites = 0 /\ ~eff.notified

\* The least of a set of intervals, None for the empty set.
MinInterval(S) ==
    IF S = {} THEN None ELSE CHOOSE m \in S : \A x \in S : m <= x

\* The stages whose task has merged its result.
Merged == {s \in StageSet : proc.task[s] = "done"}

\* C8: whatever the order of the merges, the interval is the least non-nil
\* Interval of the merged stages (nil when there is none) and the retry flag
\* is the disjunction of their Retry flags.
C8_MergeCorrect ==
    /\ proc.interval = MinInterval({proc.res[s].Interval : s \in Merged} \ {None})
    /\ proc.shouldRetry = (\E s \in Merged : proc.res[s].Retry)

\* C8 (witness): three stages reported 2s, 5s and nil, the 2s first, with
\* Retry flags true and false.
C8_Witness ==
    /\ Len(stages) = 3 /\ AllMerged
    /\ {proc.res[s].Interval : s \in StageSet} = {None, 2, 5}
    /\ proc.res[proc.order[1]].Interval = 2
    /\ {proc.res[s].Retry : s \in StageSet} = {TRUE, FALSE}
    /\ proc.interval = 2 /\ proc.shouldRetry

DetailOK(d) == d.Passed = (Len(d.RejectInfo) = 0)

\* C9: every Detail of the accumulator, of the snapshot the pass builds and
\* of the stored status has Passed exactly when its RejectInfo is empty.
C9_DetailInvariant ==
    /\ \A po \in DOMAIN proc.details : DetailOK(proc.details[po])
    /\ \A k \in DOMAIN loc.newStatus.Details : DetailOK(loc.newStatus.Details[k])
    /\ \A k \in DOMAIN rs.status.Details : DetailOK(rs.status.Details[k])

\* C9 (witness): the stored status holds a Detail two stages reported on,
\* the first of them rejecting the pod and the second passing it.
C9_Witness ==
    /\ Len(rs.status.Details) > 0
    /\ Len(proc.order) >= 2
    /\ LET d == rs.status.Details[1] IN
       /\ Len(d.PassedRules) = 2 /\ Len(d.RejectInfo) = 1
       /\ d.Name \in DOMAIN proc.res[proc.order[1]].Rejected
       /\ d.Name \notin DOMAIN proc.res[proc.order[2]].Rejected
       /\ ~d.Passed

\* The names recorded in the status the pass read.
Recorded == Range(loc.oldStatus.Targets)

\* C10: in a pass on a RuleSet that is not being deleted, only recorded names
\* outside the selection are released and only selected pods are claimed, no
\* release follows a claim, a claim is issued only once every recorded name
\* outside the selection is released, and once the pass reaches the stages
\* every selected pod is claimed.
C10_SelectionDelta ==
    (loc.ruleSet.exists /\ ~loc.ruleSet.deleting) =>
        LET selected == DOMAIN loc.selectedPods IN
        /\ eff.released \subseteq Recorded \ selected
        /\ eff.claimed \subseteq selected
        /\ eff.released \cap eff.claimed = {}
        /\ ~eff.releaseAfterClaim
        /\ eff.claimed # {} => eff.released = Recorded \ selected
        /\ (pc = "process" \/ eff.processed) =>
              /\ eff.released = Recorded \ selected
              /\ eff.claimed = selected

\* C10 (witness): recorded {X, Y}, selected {Y, Z}: X has been released, Y
\* and Z claimed, and the pass has reached the stages.
C10_Witness ==
    /\ loc.ruleSet.exists /\ ~loc.ruleSet.deleting
    /\ Recorded = {"X", "Y"} /\ loc.selectedPodNames = {"Y", "Z"}
    /\ eff.released = {"X"} /\ eff.moved = {"X"}
    /\ eff.claimed = {"Y", "Z"} /\ eff.added = {"Z"}
    /\ eff.processed

\* C11: a pass registers the expectation at the version of the RuleSet it
\* holds before it issues the status write; when the write fails the
\* expectation is deleted, the error is returned and nothing is enqueued; a
\* pass that returned an error leaves no expectation of its own pending.
C11_WriteFailureFreesGuard ==
    /\ pc = "write" => eff.expectSet /\ rsExpect = ExpectUpdate(loc.ruleSet.rv)
    /\ eff.statusWrites > 0 => eff.expectSet
    /\ eff.statusFailed =>
          /\ pc = "done" /\ ret.err # "nil"
          /\ eff.expectDeleted /\ rsExpect = None
          /\ ~eff.notified /\ eff.enqueued = <<>>
    /\ (pc = "done" /\ ret.err # "nil" /\ eff.expectSet) => rsExpect = None

\* C11 (witness): the status differed, the expectation was registered, the
\* write failed and the pass has returned the error.
C11_Witness ==
    /\ pc = "done" /\ ret.err # "nil"
    /\ eff.expectSet /\ eff.statusFailed /\ eff.statusWrites = 1

\* The Details of a status are in ascending order of pod name.
SortedByName(details) ==
    \A a, b \in DOMAIN details :
        a < b => Rank(details[a].Name) < Rank(details[b].Name)

\* C12: the Details of every snapshot a pass builds or stores are sorted by
\* pod name, and the snapshots built from the same Details with the map
\* yielding its keys in two different orders are equal for equalStatus.
C12_SnapshotOrder ==
    /\ SortedByName(loc.newStatus.Details)
    /\ SortedByName(rs.status.Details)
    /\ AllMerged =>
          \A k1, k2 \in RangeKeys(proc.details) :
              equalStatus(
                  NewStatus(loc.selectedPodNames, loc.ruleSet.generation,
                            proc.details, proc.ruleStates, passes, k1),
                  NewStatus(loc.selectedPodNames, loc.ruleSet.generation,
                            proc.details, proc.ruleStates, passes, k2))

\* C12 (witness): the Detail of Y entered the map before the Detail of X
\* (the stage merged first reported on Y alone, the second on X alone), and
\* the stored snapshot lists X before Y.
C12_Witness ==
    /\ AllMerged /\ Len(proc.order) = 2
    /\ DOMAIN proc.res[proc.order[1]].PassRules = {"Y"}
    /\ DOMAIN proc.res[proc.order[2]].PassRules = {"X"}
    /\ Len(rs.status.Details) = 2
    /\ rs.status.Details[1].Name = "X" /\ rs.status.Details[2].Name = "Y"

\* C13: a pass that has found deletion blocked and ends without an error
\* returns a result whose RequeueAfter is the 5-second delay.
C13_BlockedRequeues ==
    (eff.blocked /\ pc = "done" /\ ret.err = "nil")
    => ret.result.RequeueAfter = BlockRequeueAfter

\* C14: a pod that the result of a merged stage rejects has a Detail, the
\* Detail holds the RejectInfo of that rejection and its Passed is false.
C14_RejectionDominates ==
    \A s \in Merged : \A po \in DOMAIN proc.res[s].Rejected :
        /\ po \in DOMAIN proc.details
        /\ ~proc.details[po].Passed
        /\ \E k \in DOMAIN proc.details[po].RejectInfo :
              proc.details[po].RejectInfo[k] =
                  [RuleName |-> proc.res[s].Rejected[po].RuleName,
                   Reason |-> proc.res[s].Rejected[po].Reason]

\* C15: when the store answered the write of an ownership mutation with a
\* Conflict (fewer conflicts than RetrySteps) and updateRuleSetOnPod returned
\* nil, the pod in the store, if it is still there, carries the mutation.
C15_ConflictRetried ==
    \A w \in eff.failedWrites :
        (w[3] = "Conflict" /\ pods[w[2]].exists)
        => pods[w[2]].owned = (w[1] = "add")

\* C16: a pass that ends on the unsatisfied expectation of a selected pod
\* has changed no finalizer, written no status, mutated no pod, evaluated no
\* stage and enqueued nothing, and returns a nil error.
C16_StalePodNoOp ==
    eff.podGuardStale =>
        /\ pc = "done" /\ ret.err = "nil"
        /\ ~eff.finAdded /\ ~eff.finRemoved
        /\ eff.statusWrites = 0 /\ ~eff.expectSet
        /\ eff.released = {} /\ eff.claimed = {}
        /\ eff.evaluated = {} /\ ~eff.processed
        /\ ~eff.notified

\* The number of times v occurs in seq.
Count(seq, v) == Cardinality({k \in DOMAIN seq : seq[k] = v})

\* The number of times v occurs in the RuleStates of the stages of S.
RECURSIVE CountIn(_, _)
CountIn(S, v) ==
    IF S = {} THEN 0
    ELSE LET s == CHOOSE x \in S : TRUE
         IN  Count(proc.res[s].RuleStates, v) + CountIn(S \ {s}, v)

RECURSIVE TotalLen(_)
TotalLen(S) ==
    IF S = {} THEN 0
    ELSE LET s == CHOOSE x \in S : TRUE
         IN  Len(proc.res[s].RuleStates) + TotalLen(S \ {s})

\* C17: process has returned only when every stage task has merged; the
\* mutex is held by at most one task, and only by a task inside its merge
\* step; the ruleStates hold every RuleState of every merged stage exactly
\* as often as the stages reported it, and the details hold the passed rules
\* and the rejection of every pod a merged stage listed.
C17_BarrierJoin ==
    /\ pc \notin {"process", "stages"} => AllMerged
    /\ Cardinality({s \in StageSet : proc.task[s] = "locked"}) <= 1
    /\ \A s \in StageSet : proc.mu = s <=> proc.task[s] = "locked"
    /\ Len(proc.ruleStates) = TotalLen(Merged)
    /\ \A k \in DOMAIN proc.ruleStates :
          Count(proc.ruleStates, proc.ruleStates[k])
              = CountIn(Merged, proc.ruleStates[k])
    /\ \A s \in Merged : \A po \in DOMAIN proc.res[s].PassRules :
          /\ po \in DOMAIN proc.details
          /\ proc.res[s].PassRules[po] \subseteq Range(proc.details[po].PassedRules)
          /\ po \in DOMAIN proc.res[s].Rejected =>
                \E k \in DOMAIN proc.details[po].RejectInfo :
                    proc.details[po].RejectInfo[k].RuleName
                        = proc.res[s].Rejected[po].RuleName

\* C17 (witness): three stages, each with a RuleState and passed rules for
\* X, merged in another order than they were started; process has returned.
C17_Witness ==
    /\ pc = "status" /\ Len(stages) = 3 /\ AllMerged
    /\ proc.order # stages
    /\ \A s \in StageSet : Len(proc.res[s].RuleStates) = 1
                           /\ "X" \in DOMAIN proc.res[s].PassRules
    /\ Len(proc.ruleStates) = 3
    /\ Len(proc.details["X"].PassedRules) = 3

\* A pass runs (or has just ended) that started after the status write w was
\* issued, on a view of the RuleSet no newer than the version w wrote from.
StaleAfter(w) ==
    /\ pc # "idle" /\ w.pass < passes
    /\ loc.ruleSet.exists
    /\ loc.observed <= w.base

\* The pass has stored no pod mutation and issued no status write.
PassIsNoOp ==
    eff.moved = {} /\ eff.added = {} /\ eff.statusWrites = 0

\* C18: once a pass has issued a status write from version v, a pass that
\* starts while the view shows v or older is a no-op (it stores no pod
\* mutation and issues no status write), and no two status writes are
\* issued from the same version.
C18_IssuedWriteSerializes ==
    /\ \A k \in DOMAIN prev.writes :
          StaleAfter(prev.writes[k]) => PassIsNoOp
    /\ \A j, k \in DOMAIN prev.writes :
          j # k => prev.writes[j].base # prev.writes[k].base

\* C19: in every state in which the engine has removed the finalizer from
\* the RuleSet, no pod that still exists and is recorded in the stored
\* Status.Targets carries the ownership annotation.
C19_NoOwnershipSurvives ==
    prev.unfinalized =>
        \A name \in Range(rs.status.Targets) :
            pods[name].exists => ~pods[name].owned

\* A pass on a RuleSet that is not being deleted has got through: every
\* store call succeeded and it returned a nil error.
CleanPass ==
    /\ pc = "done" /\ ret.err = "nil" /\ eff.notified
    /\ eff.failedWrites = {}
    /\ loc.ruleSet.exists /\ ~loc.ruleSet.deleting

\* C20: when a pass on a RuleSet that is not being deleted has got through,
\* no pod that exists and is outside the selection carries the ownership
\* annotation. (The pass leaves Status.Targets equal to the selection, and a
\* later pass releases only names of Status.Targets: an annotation left on
\* such a pod is removed by no later pass either.)
C20_NoOrphanedOwnership ==
    CleanPass =>
        \A p \in Pods :
            (pods[p].exists /\ ~pods[p].selected /\ p \notin loc.selectedPodNames)
            => ~pods[p].owned

====
